---- MODULE Spec2Model ----
(***************************************************************************)
(* A model of the path_env crate: the PATH splitter (src/split.rs) and the *)
(* PathEnv container (src/lib.rs) that owns the raw text and caches        *)
(* pointers to its segments.                                               *)
(*                                                                         *)
(* Byte strings are sequences of byte values.  A slice of a byte string is *)
(* a record [off, len] (0-based offset into the string); a cached part of  *)
(* a container is a record [addr, len] holding an absolute address, as the *)
(* `*const Path` fat pointers of the code do.                              *)
(***************************************************************************)
EXTENDS Integers, Sequences, FiniteSets, TLC

\* separator::U8 on Unix: b':'
U8 == 58

\* The byte values used: the separator, a quote character and a byte that
\* is valid text in no encoding.
Bytes == {U8, 34, 255}

\* Longest input handed to a stand-alone split iterator.
MaxInput == 4
\* Longest raw text a container is constructed from.
MaxText == 2
\* Most entries handed to one extend / from_iter call.
MaxEntries == 2
\* Longest raw text a container may grow to.
MaxPathLen == 5
\* Largest count handed to pop_back_n.
MaxPop == 3
\* Distance between two heap addresses a buffer may be placed at (larger
\* than any buffer).
Stride == 16
\* Most mutations recorded after a clone was taken.
MaxOps == 3
\* Longest raw text of a compared container (the text it is compared with
\* may be one byte longer).
MaxCmp == 3

Strs(n) == UNION {[1..k -> Bytes] : k \in 0..n}

Min(a, b) == IF a < b THEN a ELSE b
Max(a, b) == IF a > b THEN a ELSE b

Reverse(s) == [k \in 1..Len(s) |-> s[Len(s) + 1 - k]]

\* The bytes of the slice sl of byte string s (&s[off .. off+len]).
SliceBytes(s, sl) == SubSeq(s, sl.off + 1, sl.off + sl.len)

(***************************************************************************)
(* src/split.rs                                                            *)
(***************************************************************************)

\* Option::None of a position search.
NoSep == -1

\* <&OsStr as Default>::default(): the empty string.
Default == [off |-> 0, len |-> 0]

\* PathEnvSplit::new: the iterator's state is the not yet traversed slice.
new(s) == [off |-> 0, len |-> Len(s)]

\* next_separator inside next: bytes.iter().position(|&b| b == U8), 0-based.
next_separator(bytes) ==
    IF \E i \in 1..Len(bytes) : bytes[i] = U8
    THEN (CHOOSE i \in 1..Len(bytes) :
              /\ bytes[i] = U8
              /\ \A j \in 1..(i - 1) : bytes[j] # U8) - 1
    ELSE NoSep

\* next_separator inside next_back: bytes.iter().rev().position(..), that is
\* the number of bytes that follow the last separator.
rev_next_separator(bytes) ==
    IF \E i \in 1..Len(bytes) : bytes[i] = U8
    THEN Len(bytes) - (CHOOSE i \in 1..Len(bytes) :
              /\ bytes[i] = U8
              /\ \A j \in (i + 1)..Len(bytes) : bytes[j] # U8)
    ELSE NoSep

\* A variant of next that yields the empty runs too.
next_keep_empty(s, it) ==
    LET i == next_separator(SliceBytes(s, it))
    IN  IF i = NoSep
        THEN [some |-> it.len # 0,
              item |-> IF it.len # 0 THEN it ELSE Default,
              rest |-> Default]
        ELSE [some |-> TRUE,
              item |-> [off |-> it.off, len |-> i],
              rest |-> [off |-> it.off + i + 1, len |-> it.len - (i + 1)]]

\* PathEnvSplit::next, the whole call: `it` is self.0 on entry; the result
\* holds the returned Option (some, item) and self.0 on return (rest).
RECURSIVE next(_, _)
next(s, it) ==
    LET i == next_separator(SliceBytes(s, it))
    IN  IF i = NoSep
        THEN \* the loop is left: self.0 = Default, Some(path) unless empty
             [some |-> it.len # 0,
              item |-> IF it.len # 0 THEN it ELSE Default,
              rest |-> Default]
        ELSE LET nxt  == [off |-> it.off, len |-> i]
                 path == [off |-> it.off + i + 1, len |-> it.len - (i + 1)]
             IN  IF nxt.len = 0
                 THEN next(s, path)
                 ELSE [some |-> TRUE, item |-> nxt, rest |-> path]

\* A variant of next_back that leaves self.0 as it is when it returns the
\* last segment.
RECURSIVE next_back_no_reset(_, _)
next_back_no_reset(s, it) ==
    LET i == rev_next_separator(SliceBytes(s, it))
    IN  IF i = NoSep
        THEN [some |-> it.len # 0,
              item |-> IF it.len # 0 THEN it ELSE Default,
              rest |-> it]
        ELSE LET nxt  == [off |-> it.off + i + 1, len |-> it.len - (i + 1)]
                 path == [off |-> it.off, len |-> i]
             IN  IF nxt.len = 0
                 THEN next_back_no_reset(s, path)
                 ELSE [some |-> TRUE, item |-> nxt, rest |-> path]

\* PathEnvSplit::next_back, the whole call.
RECURSIVE next_back(_, _)
next_back(s, it) ==
    LET i == rev_next_separator(SliceBytes(s, it))
    IN  IF i = NoSep
        THEN [some |-> it.len # 0,
              item |-> IF it.len # 0 THEN it ELSE Default,
              rest |-> Default]
        ELSE LET nxt  == [off |-> it.off + i + 1, len |-> it.len - (i + 1)]
                 path == [off |-> it.off, len |-> i]
             IN  IF nxt.len = 0
                 THEN next_back(s, path)
                 ELSE [some |-> TRUE, item |-> nxt, rest |-> path]

\* split(s) driven to the end by next, as .map(..).collect() and
\* Extend::extend drive it: the slices yielded, in order.
RECURSIVE collect(_, _)
collect(s, it) ==
    LET r == next(s, it)
    IN  IF r.some THEN <<r.item>> \o collect(s, r.rest) ELSE <<>>

split(s) == collect(s, new(s))

(***************************************************************************)
(* src/util.rs                                                             *)
(***************************************************************************)

\* Width of usize/isize in bits (scaled down so that the numbers stay small).
WordBits == 16
USIZE_MAX == 2^WordBits - 1
ISIZE_MAX == 2^(WordBits - 1) - 1

\* ":/usr/local/bin".len()
LEN_HEURISTIC == 15

saturating_mul(a, b) == IF a * b > USIZE_MAX THEN USIZE_MAX ELSE a * b

\* reserve_heuristic: the number of additional bytes handed to path.reserve.
reserve_heuristic(old_len) ==
    LET len == saturating_mul(old_len, LEN_HEURISTIC)
    IN  IF len >= ISIZE_MAX \div 2 THEN old_len ELSE len

(***************************************************************************)
(* src/lib.rs: the container.  A container is a record                     *)
(*   path  : the bytes of the OsString,                                    *)
(*   ptr   : the address of the OsString's buffer,                         *)
(*   parts : the cached pointers [addr, len], front to back.               *)
(***************************************************************************)

\* Address of the buffer of an OsString that owns no allocation.
Dangling == 1

\* The heap addresses a buffer can be allocated at: one for the container,
\* one for its clone and one to move to.
Addrs == {Stride, 2 * Stride, 3 * Stride}

\* The allocator: the lowest address that is not taken.  The code compares
\* addresses for equality and subtracts them, nothing else, so which free
\* address is handed out makes no difference to it.
Alloc(taken) == CHOOSE a \in Addrs \ taken : \A b \in Addrs \ taken : a <= b

\* What a read through a pointer that is not inside the live buffer gives:
\* a value no byte string holds.
Poison == <<256>>

\* PathEnv::empty
empty == [path |-> <<>>, ptr |-> Dangling, parts |-> <<>>]

\* `part as *const Path` for each slice of the buffer at address base.
as_ptrs(base, slices) ==
    [k \in 1..Len(slices) |->
        [addr |-> base + slices[k].off, len |-> slices[k].len]]

\* &**part: the bytes a cached pointer refers to, read from self.path.
deref(self, part) ==
    IF part.addr >= self.ptr /\ part.addr + part.len <= self.ptr + Len(self.path)
    THEN SubSeq(self.path, part.addr - self.ptr + 1,
                part.addr - self.ptr + part.len)
    ELSE Poison

\* PathEnv::iter (and _parts): the cached segments, in order.
iter(self) == [k \in 1..Len(self.parts) |-> deref(self, self.parts[k])]

\* PathEnv::as_os_str / into_os_string
as_os_str(self) == self.path

\* PathEnv::len / is_empty
len(self) == Len(self.parts)
is_empty(self) == self.parts = <<>>

\* The bytes part_iter.for_each pushes: a separator before each entry.
RECURSIVE sep_joined(_)
sep_joined(es) ==
    IF es = <<>> THEN <<>> ELSE <<U8>> \o Head(es) \o sep_joined(Tail(es))

\* A variant of From that stores the text without its redundant separators.
From_normalized(path, p) ==
    LET segs == [k \in 1..Len(split(path)) |-> SliceBytes(path, split(path)[k])]
        text == IF segs = <<>> THEN <<>>
                ELSE Head(segs) \o sep_joined(Tail(segs))
    IN  [path |-> text, ptr |-> p, parts |-> as_ptrs(p, split(text))]

\* impl From<OsString> for PathEnv; p is the address of the string's buffer.
From(path, p) == [path |-> path, ptr |-> p, parts |-> as_ptrs(p, split(path))]

\* A variant of normalize that removes one redundant separator only.
normalize_once(path) ==
    LET redundant == {i \in 1..Len(path) :
                         /\ path[i] = U8
                         /\ (i = 1 \/ i = Len(path) \/ path[i + 1] = U8)}
    IN  IF redundant = {}
        THEN path
        ELSE LET i == CHOOSE i \in redundant : \A j \in redundant : i <= j
             IN  SubSeq(path, 1, i - 1) \o SubSeq(path, i + 1, Len(path))

\* A variant of normalize that keeps a separator the text ends with.
normalize_trailing(path) ==
    LET parts == split(path)
        segs  == [k \in 1..Len(parts) |-> SliceBytes(path, parts[k])]
        text  == IF segs = <<>> THEN <<>>
                 ELSE Head(segs) \o sep_joined(Tail(segs))
    IN  IF path # <<>> /\ path[Len(path)] = U8 THEN text \o <<U8>> ELSE text

\* normalize: the first part, then a separator and a part for each further
\* part that split yields.
normalize(path) ==
    LET first == next(path, new(path))
        rest  == collect(path, first.rest)
    IN  IF first.some
        THEN SliceBytes(path, first.item)
                 \o sep_joined([k \in 1..Len(rest) |-> SliceBytes(path, rest[k])])
        ELSE <<>>

\* A variant of offset_parts that leaves the pointers where they were.
offset_parts_stale(parts, diff) == parts

\* PathEnv::offset_parts.  The code computes diff and the new address with
\* wrapping arithmetic; the sum is exact modulo the word size.
offset_parts(parts, diff) ==
    [k \in 1..Len(parts) |-> [addr |-> parts[k].addr + diff, len |-> parts[k].len]]

\* A variant of reconstruct_back that takes the buffer for unmoved.
reconstruct_back_unmoved(self, old_ptr, old_len) ==
    LET ext_buf == [off |-> old_len, len |-> Len(self.path) - old_len]
    IN  [self EXCEPT
            !.parts = self.parts
                          \o as_ptrs(self.ptr, collect(self.path, ext_buf))]

\* PathEnv::reconstruct_back; self already holds the grown path at its
\* (possibly new) address.
reconstruct_back(self, old_ptr, old_len) ==
    LET new_ptr == self.ptr
        ext_buf == [off |-> old_len, len |-> Len(self.path) - old_len]
        kept    == IF new_ptr # old_ptr
                   THEN offset_parts(self.parts, new_ptr - old_ptr)
                   ELSE self.parts
    IN  [self EXCEPT
            !.parts = kept \o as_ptrs(new_ptr, collect(self.path, ext_buf))]

\* A variant of push_back that always writes the separator.
push_back_always_sep(self, path, np) ==
    IF path = <<>>
    THEN self
    ELSE reconstruct_back(
             [self EXCEPT !.path = self.path \o <<U8>> \o path, !.ptr = np],
             self.ptr, Len(self.path))

\* PathEnv::push_back; np is the buffer's address after the pushes.
push_back(self, path, np) ==
    IF path = <<>>
    THEN self
    ELSE LET sep == IF ~is_empty(self) THEN <<U8>> ELSE <<>>
         IN  reconstruct_back(
                 [self EXCEPT !.path = self.path \o sep \o path, !.ptr = np],
                 self.ptr, Len(self.path))

\* unimplemented!(msg): the call panics with msg before self was touched.
\* An operation that can panic returns self and the message ("" for none).
unimplemented(self, msg) == [self |-> self, panic |-> msg]

\* PathEnv::_push_front
push_front_(self, part) ==
    unimplemented(self, "not implemented: TODO: Implement push_front")

\* PathEnv::push_front
push_front(self, path) == push_front_(self, path)

\* PathEnv::pop_front_n
pop_front_n(self, n) ==
    unimplemented(self, "not implemented: TODO: Implement pop_front_n")

\* PathEnv::pop_front
pop_front(self) == pop_front_n(self, 1)

\* impl Extend for PathEnv: extend; np is the buffer's address afterwards
\* (the buffer stays where it is when nothing is pushed or reserved).
extend(self, part_iter, np) ==
    IF part_iter = <<>>
    THEN self
    ELSE LET pushed    == Head(part_iter) \o sep_joined(Tail(part_iter))
             size_hint == Len(part_iter) - 1
             grows     == pushed # <<>> \/ reserve_heuristic(size_hint) > 0
         IN  reconstruct_back(
                 [self EXCEPT !.path = self.path \o pushed,
                              !.ptr = IF grows THEN np ELSE self.ptr],
                 self.ptr, Len(self.path))

\* OsString::reserve(additional) as reserve_heuristic calls it on a buffer of
\* path_len bytes: Vec::reserve panics when the capacity asked for is above
\* isize::MAX, and returns otherwise ("" stands for no panic).
reserve(path_len, additional) ==
    IF path_len + additional > ISIZE_MAX THEN "capacity overflow" ELSE ""

\* impl Extend for PathEnv: extend, for an iterator that yields part_iter
\* and whose size_hint, asked after the first entry was taken, is size_hint
\* (an upper bound need not be exact).  The result holds self as the call
\* left it, the panic message and the number of bytes reserve was asked for;
\* when reserve panics the first entry has been pushed and the parts have
\* not been reconstructed.
extend_with_hint(self, part_iter, size_hint, np) ==
    IF part_iter = <<>>
    THEN [self |-> self, panic |-> "", additional |-> 0]
    ELSE LET first      == Head(part_iter)
             pushed     == [self EXCEPT !.path = self.path \o first,
                                        !.ptr = IF first # <<>> THEN np
                                                ELSE self.ptr]
             additional == reserve_heuristic(size_hint)
             panic      == reserve(Len(pushed.path), additional)
         IN  [self       |-> IF panic # "" THEN pushed
                             ELSE extend(self, part_iter, np),
              panic      |-> panic,
              additional |-> additional]

\* A variant of from_iter that takes the first entry only.
from_iter_first_only(es, p) ==
    IF es = <<>>
    THEN empty
    ELSE From(Head(es), IF Head(es) = <<>> THEN Dangling ELSE p)

\* impl FromIterator for PathEnv: from_iter; p is the address of the buffer
\* built (none is allocated for an empty text with nothing reserved).
from_iter(es, p) ==
    IF es = <<>>
    THEN empty
    ELSE LET path      == Head(es) \o sep_joined(Tail(es))
             size_hint == Len(es) - 1
         IN  From(path, IF path = <<>> /\ reserve_heuristic(size_hint) = 0
                        THEN Dangling ELSE p)

\* ByteBufRepr::set_byte_len (Vec::set_len).  A length beyond the current
\* one exposes bytes the program never wrote: g stands for what is there.
set_byte_len(path, n, g) ==
    IF n \in 0..Len(path) THEN SubSeq(path, 1, n) ELSE g

\* ByteBufRepr::set_end
set_end(self, end, g) ==
    [self EXCEPT !.path = set_byte_len(self.path, end - self.ptr, g)]

\* A variant of pop_back_n that keeps the separator after the last segment.
pop_back_n_keep_sep(self, n, g) ==
    LET i   == Max(len(self) - n, 0)
        end == IF i = 0 THEN self.ptr
               ELSE Min(self.parts[i].addr + self.parts[i].len + 1,
                        self.ptr + Len(self.path))
    IN  [set_end(self, end, g) EXCEPT !.parts = SubSeq(self.parts, 1, i)]

\* PathEnv::pop_back_n.  get(i - 1) is always Some, as i <= len.
pop_back_n(self, n, g) ==
    LET i   == Max(len(self) - n, 0)
        end == IF i = 0 THEN self.ptr
               ELSE self.parts[i].addr + self.parts[i].len
    IN  [set_end(self, end, g) EXCEPT !.parts = SubSeq(self.parts, 1, i)]

\* A variant of pop_back that removes two parts.
pop_back_two(self, g) == pop_back_n(self, 2, g)

\* PathEnv::pop_back
pop_back(self, g) == pop_back_n(self, 1, g)

\* PathEnv::clear: both are emptied, the buffer keeps its allocation.
clear(self) == [self EXCEPT !.parts = <<>>, !.path = <<>>]

\* A variant of clone that copies the pointers as they are.
clone_no_rebase(self, np) ==
    [path |-> self.path,
     ptr |-> IF self.path = <<>> THEN Dangling ELSE np,
     parts |-> self.parts]

\* A variant of clone that rebases the pointers the wrong way round.
clone_rebase_backwards(self, np) ==
    LET new_ptr == IF self.path = <<>> THEN Dangling ELSE np
        diff    == self.ptr - new_ptr
    IN  [path |-> self.path, ptr |-> new_ptr,
         parts |-> [k \in 1..Len(self.parts) |->
                       [addr |-> self.parts[k].addr + diff,
                        len  |-> self.parts[k].len]]]

\* impl Clone for PathEnv; np is the address of the copy's buffer (an empty
\* text is copied without allocating).
clone(self, np) ==
    LET new_ptr == IF self.path = <<>> THEN Dangling ELSE np
        diff    == new_ptr - self.ptr
    IN  [path |-> self.path, ptr |-> new_ptr,
         parts |-> offset_parts(self.parts, diff)]

(***************************************************************************)
(* src/cmp.rs.  The cached parts are `&Path` values, so they are compared  *)
(* as std::path::Path compares: component by component.                   *)
(***************************************************************************)

\* The bytes '/' (the separator of path components on Unix) and '.'.
Slash == 47
Dot == 46

\* std::path::Component on Unix, numbered in the order of its variants (the
\* order #[derive(PartialOrd, Ord)] compares them by).
RootDir == 1
CurDir == 2
ParentDir == 3
Normal == 4

\* Option::Some
Some(v) == [some |-> TRUE, val |-> v]

\* The pieces of p between its '/' bytes, the empty ones included.
RECURSIVE pieces(_)
pieces(p) ==
    IF \E i \in 1..Len(p) : p[i] = Slash
    THEN LET i == CHOOSE i \in 1..Len(p) :
                      p[i] = Slash /\ \A j \in 1..(i - 1) : p[j] # Slash
         IN  <<SubSeq(p, 1, i - 1)>> \o pieces(SubSeq(p, i + 1, Len(p)))
    ELSE <<p>>

\* Path::components: RootDir for a leading '/', CurDir for a leading "."
\* component of a path without root, then a component for each piece that
\* is neither empty nor ".": ParentDir for "..", Normal otherwise.
components(p) ==
    LET has_root == p # <<>> /\ p[1] = Slash
        include_cur_dir ==
            /\ ~has_root
            /\ \/ p = <<Dot>>
               \/ Len(p) >= 2 /\ p[1] = Dot /\ p[2] = Slash
        front == IF has_root THEN <<[kind |-> RootDir, name |-> <<>>]>>
                 ELSE IF include_cur_dir THEN <<[kind |-> CurDir, name |-> <<>>]>>
                 ELSE <<>>
        body  == IF has_root \/ include_cur_dir THEN Tail(p) ELSE p
        named == SelectSeq(pieces(body), LAMBDA q : q # <<>> /\ q # <<Dot>>)
    IN  front \o [k \in 1..Len(named) |->
                     IF named[k] = <<Dot, Dot>>
                     THEN [kind |-> ParentDir, name |-> <<>>]
                     ELSE [kind |-> Normal, name |-> named[k]]]

\* <[u8] as Ord>::cmp (OsStr::cmp on Unix)
RECURSIVE cmp_bytes(_, _)
cmp_bytes(a, b) ==
    IF a = <<>> THEN (IF b = <<>> THEN "Equal" ELSE "Less")
    ELSE IF b = <<>> THEN "Greater"
    ELSE IF Head(a) < Head(b) THEN "Less"
    ELSE IF Head(a) > Head(b) THEN "Greater"
    ELSE cmp_bytes(Tail(a), Tail(b))

\* <Component as Ord>::cmp
cmp_component(p, q) ==
    IF p.kind < q.kind THEN "Less"
    ELSE IF p.kind > q.kind THEN "Greater"
    ELSE cmp_bytes(p.name, q.name)

\* Iterator::cmp over two component sequences
RECURSIVE cmp_components(_, _)
cmp_components(a, b) ==
    IF a = <<>> THEN (IF b = <<>> THEN "Equal" ELSE "Less")
    ELSE IF b = <<>> THEN "Greater"
    ELSE LET o == cmp_component(Head(a), Head(b))
         IN  IF o = "Equal" THEN cmp_components(Tail(a), Tail(b)) ELSE o

\* <Path as Ord>::cmp and <Path as PartialEq>::eq
path_cmp(a, b) == cmp_components(components(a), components(b))
path_eq(a, b) == components(a) = components(b)

\* src/lib.rs again: the read accessors (contains compares as cmp.rs does).

\* Option<&Path>::None
None == [some |-> FALSE, val |-> <<>>]

\* usize::wrapping_sub
wrapping_sub(a, b) == (a - b) % (USIZE_MAX + 1)

\* PathEnv::get: self._parts().get(index), the segment read through the
\* cached pointer.
get(self, index) ==
    IF index < Len(self.parts)
    THEN [some |-> TRUE, val |-> deref(self, self.parts[index + 1])]
    ELSE None

\* PathEnv::front
front(self) == get(self, 0)

\* A variant of back that reads the part at index len (one too far).
back_at_len(self) == get(self, len(self))

\* PathEnv::back
back(self) == get(self, wrapping_sub(len(self), 1))

\* A variant of contains that compares the bytes.
contains_bytes(self, path) ==
    \E k \in 1..Len(self.parts) : deref(self, self.parts[k]) = path

\* PathEnv::contains: self._parts().contains(&path), by Path's ==.
contains(self, path) ==
    \E k \in 1..Len(self.parts) : path_eq(deref(self, self.parts[k]), path)

\* <VecDeque<&Path> as Ord>::cmp
RECURSIVE cmp_parts(_, _)
cmp_parts(a, b) ==
    IF a = <<>> THEN (IF b = <<>> THEN "Equal" ELSE "Less")
    ELSE IF b = <<>> THEN "Greater"
    ELSE LET o == path_cmp(Head(a), Head(b))
         IN  IF o = "Equal" THEN cmp_parts(Tail(a), Tail(b)) ELSE o

\* impl PartialEq for PathEnv: self._parts() == other._parts()
eq(self, other) ==
    /\ len(self) = len(other)
    /\ \A k \in 1..len(self) : path_eq(iter(self)[k], iter(other)[k])

\* A variant of cmp that compares the OsStr representation.
cmp_raw(self, other) == cmp_bytes(self.path, other.path)

\* impl Ord for PathEnv: self._parts().cmp(other._parts())
cmp(self, other) == cmp_parts(iter(self), iter(other))

\* The loop of PartialOrd<OsStr>::partial_cmp over the parts not yet
\* compared; `it` is path_iter.  tail is what is returned when the parts are
\* used up and path_iter still yields.
RECURSIVE partial_cmp_loop(_, _, _, _)
partial_cmp_loop(segs, path, it, tail) ==
    LET r == next(path, it)
    IN  IF segs = <<>>
        THEN Some(IF r.some THEN tail ELSE "Equal")
        ELSE IF r.some
             THEN LET o == path_cmp(Head(segs), SliceBytes(path, r.item))
                  IN  IF o = "Equal"
                      THEN partial_cmp_loop(Tail(segs), path, r.rest, tail)
                      ELSE Some(o)
             ELSE Some("Greater")

\* A variant of partial_cmp that does not look at what path_iter still
\* yields.
partial_cmp_no_tail(self, path) ==
    partial_cmp_loop(iter(self), path, new(path), "Equal")

\* impl PartialOrd<OsStr> for PathEnv
partial_cmp(self, path) ==
    partial_cmp_loop(iter(self), path, new(path), "Less")

\* impl PartialEq<OsStr> for PathEnv
eq_os_str(self, path) == partial_cmp(self, path) = Some("Equal")

(***************************************************************************)
(* src/split.rs: the other methods of the iterator.                        *)
(***************************************************************************)

\* count inside size_hint: the number of separator bytes.
count(bytes) == Cardinality({i \in 1..Len(bytes) : bytes[i] = U8})

\* A variant of size_hint whose upper bound is the number of separators.
size_hint_no_plus_one(s, it) ==
    [lower |-> 0, upper |-> [some |-> TRUE, val |-> count(SliceBytes(s, it))]]

\* PathEnvSplit::size_hint: (0, Some(count(self.0) + 1)); self.0 is left alone.
size_hint(s, it) ==
    [lower |-> 0,
     upper |-> [some |-> TRUE, val |-> count(SliceBytes(s, it)) + 1]]

\* PathEnvSplit::last: the iterator is consumed by one next_back.
last(s, it) == next_back(s, it)

(***************************************************************************)
(* The state.                                                              *)
(*   c     : the container under test                                      *)
(*   snap  : the clone last taken of c (NoSnap once it has been dropped)   *)
(*   since : what was done to c since it was constructed or cloned         *)
(*   x     : the input of the stand-alone split iterators                  *)
(*   fwd   : an iterator over x driven by next only                        *)
(*   bwd   : an iterator over x driven by next_back only                   *)
(*   norm  : what normalize returned for x, and for that result            *)
(*   ord   : what comparing c with x, and with the container constructed   *)
(*           from x, returned                                              *)
(*   mix   : an iterator over x driven by next and next_back in any order, *)
(*           with the method that yielded each item and the number of      *)
(*           calls made until one returned None                            *)
(*   lst   : what split(x).last() returned                                 *)
(*   hint  : what fwd.size_hint() returned, and the state of fwd it was    *)
(*           asked in                                                      *)
(*   rsv   : the size hint of the iterator handed to extend, and the       *)
(*           number of bytes reserve was asked for                         *)
(*   acc   : what the read accessors of c returned, while the borrow of c  *)
(*           they were called with is alive                                *)
(***************************************************************************)
VARIABLES c, snap, since, x, fwd, bwd, mix, norm, ord, lst, hint, rsv, acc

vars == <<c, snap, since, x, fwd, bwd, mix, norm, ord, lst, hint, rsv, acc>>
cvars == <<c, snap, since>>
qvars == <<mix, lst, hint>>
svars == <<x, fwd, bwd, norm, ord, qvars, rsv, acc>>

\* No clone is held.
NoSnap == [path |-> <<>>, ptr |-> 0, parts |-> <<>>]

\* An iterator over s that has not been stepped.
Fresh(s) == [it |-> new(s), out |-> <<>>, done |-> FALSE]

\* An iterator over s that has not been stepped, to be stepped both ways.
FreshBoth(s) ==
    [it |-> new(s), out |-> <<>>, by |-> <<>>, done |-> FALSE, calls |-> 0]

\* normalize has not been called.
NoNorm == [done |-> FALSE, once |-> <<>>, twice |-> <<>>]

\* last has not been called.
NoLast == [done |-> FALSE, some |-> FALSE, item |-> Default]

\* size_hint has not been called.
NoHint == [done |-> FALSE, at |-> Default, lower |-> 0,
           upper |-> [some |-> FALSE, val |-> 0]]

\* extend has not been called with a size hint of its own.
NoRsv == [done |-> FALSE, size_hint |-> 0, additional |-> 0]

\* No accessor has been called, or what it returned is no longer held.
NoAcc == [done |-> FALSE, index |-> 0, path |-> <<>>, len |-> 0,
          is_empty |-> FALSE, get |-> None, front |-> None, back |-> None,
          contains |-> FALSE]

\* Nothing has been asked of the iterators or of c, nothing reserved.
NoQueries == lst = NoLast /\ hint = NoHint /\ rsv = NoRsv /\ acc = NoAcc

\* Nothing has been compared.
NoOrd == [done |-> FALSE, eq |-> FALSE, cmp |-> "Equal",
          eq_os_str |-> FALSE, partial_cmp |-> Some("Equal")]

\* The entries handed to push_back, extend and from_iter: the empty one and
\* every single byte, the separator among them.
Entries == {<<>>} \cup {<<b>> : b \in Bytes}
EntrySeqs == UNION {[1..k -> Entries] : k \in 0..MaxEntries}

\* The number of bytes extend appends for the entries es: the first entry,
\* then a separator and an entry for each further one.
PushedLen(es) ==
    IF es = <<>> THEN 0
    ELSE Len(Head(es)) + Len(sep_joined(Tail(es)))

\* One entry of the log: the operation, its arguments, whether the buffer
\* was at another address after it, and the message it panicked with ("" when
\* it returned).
Op(name, e, es, n) ==
    [op |-> name, e |-> e, es |-> es, n |-> n, moved |-> FALSE, panic |-> ""]

\* The last call panicked: the thread unwinds and nothing more is done.
Panicked == since # <<>> /\ since[Len(since)].panic # ""

\* Where the buffer of c can be after it grew: where it was (when it had an
\* allocation), or at a new address.
NewPtrs ==
    (IF c.ptr = Dangling THEN {} ELSE {c.ptr}) \cup {Alloc({c.ptr, snap.ptr})}

\* What a truncation of self by n parts can leave in the text when the cut
\* point is not inside the text.
Spare(self, n) ==
    IF pop_back_n(self, n, Poison).path = Poison THEN Strs(MaxText) ELSE {<<>>}

\* While a clone is held the log keeps the first mutation after it, and
\* after that only runs of push_back of non-empty entries closed by one pop.
\* Once the two were swapped it keeps one push_back or pop_back.  Anything
\* else is done once the clone has been dropped.
CanLog(o) ==
    IF Len(since) = 1
    THEN IF since[1].op = "swap"
         THEN o.op \in {"push_back", "pop_back"}
         ELSE TRUE
    ELSE /\ Len(since) <= MaxOps
         /\ since[1].op = "clone"
         /\ \A k \in 2..Len(since) :
                since[k].op = "push_back" /\ since[k].e # <<>>
         /\ IF o.op = "push_back"
            THEN o.e # <<>>
            ELSE o.op \in {"pop_back", "pop_back_n"}

\* Whether operation o is taken in this state.  No &mut self call is made
\* while something borrowed from c by an accessor is held.
Taken(o) ==
    IF acc.done THEN FALSE
    ELSE IF snap = NoSnap THEN TRUE ELSE CanLog(o)

Log(o) ==
    IF snap = NoSnap
    THEN since' = <<>> /\ snap' = NoSnap
    ELSE /\ since' = Append(since, [o EXCEPT !.moved = c'.ptr # c.ptr])
         /\ snap' = snap

\* The container is constructed by PathEnv::empty, PathEnv::from(text) (the
\* text's buffer is allocated unless the text is empty and has no capacity)
\* or entries.collect().
Init ==
    /\ \/ c = empty /\ since = <<Op("empty", <<>>, <<>>, 0)>>
       \/ \E t \in Strs(MaxText), p \in {Dangling, Alloc({})} :
              /\ t = <<>> \/ p \in Addrs
              /\ c = From(t, p)
              /\ since = <<Op("from", t, <<>>, 0)>>
       \/ \E es \in EntrySeqs :
              /\ c = from_iter(es, Alloc({}))
              /\ since = <<Op("from_iter", <<>>, es, 0)>>
    /\ snap = NoSnap
    /\ x = <<>>
    /\ fwd = Fresh(<<>>)
    /\ bwd = Fresh(<<>>)
    /\ mix = FreshBoth(<<>>)
    /\ norm = NoNorm
    /\ ord = NoOrd
    /\ NoQueries

\* c.push_back(e)
PushBack ==
    \E e \in Entries, np \in NewPtrs :
        /\ Taken(Op("push_back", e, <<>>, 0))
        /\ LET after == push_back(c, e, np)
           IN  /\ Len(after.path) <= MaxPathLen
               /\ c' = after
        /\ Log(Op("push_back", e, <<>>, 0))
        /\ UNCHANGED svars

\* c.extend(es)
Extend ==
    \E es \in EntrySeqs, np \in NewPtrs :
        /\ Taken(Op("extend", <<>>, es, 0))
        /\ Len(c.path) + PushedLen(es) <= MaxPathLen
        /\ c' = extend(c, es, np)
        /\ Log(Op("extend", <<>>, es, 0))
        /\ UNCHANGED svars

\* c.pop_back_n(n)
PopBackN ==
    \E n \in 0..MaxPop :
        \E g \in Spare(c, n) :
            /\ Taken(Op("pop_back_n", <<>>, <<>>, n))
            /\ c' = pop_back_n(c, n, g)
            /\ Log(Op("pop_back_n", <<>>, <<>>, n))
            /\ UNCHANGED svars

\* c.pop_back()
PopBack ==
    \E g \in Spare(c, 1) :
        /\ Taken(Op("pop_back", <<>>, <<>>, 0))
        /\ c' = pop_back(c, g)
        /\ Log(Op("pop_back", <<>>, <<>>, 0))
        /\ UNCHANGED svars

\* What a call that can panic leaves: self as the call left it, and the log
\* entry with the panic message.
Unwound(o, r) ==
    /\ c' = r.self
    /\ since' = Append(since, [o EXCEPT !.panic = r.panic])
    /\ snap' = snap

\* A call to the front of c is made right after a clone was taken.
JustCloned == snap # NoSnap /\ Len(since) = 1 /\ since[1].op = "clone"

\* c.push_front(e)
PushFront ==
    \E e \in Entries :
        /\ JustCloned
        /\ Unwound(Op("push_front", e, <<>>, 0), push_front(c, e))
        /\ UNCHANGED svars

\* c.pop_front_n(n)
PopFrontN ==
    \E n \in 0..MaxPop :
        /\ JustCloned
        /\ Unwound(Op("pop_front_n", <<>>, <<>>, n), pop_front_n(c, n))
        /\ UNCHANGED svars

\* c.pop_front()
PopFront ==
    /\ JustCloned
    /\ Unwound(Op("pop_front", <<>>, <<>>, 0), pop_front(c))
    /\ UNCHANGED svars

\* c.clear()
Clear ==
    /\ Taken(Op("clear", <<>>, <<>>, 0))
    /\ c' = clear(c)
    /\ Log(Op("clear", <<>>, <<>>, 0))
    /\ UNCHANGED svars

\* snap = c.clone(); the log notes the text and the segments c had.
Clone ==
    /\ ~Panicked
    /\ snap' = clone(c, Alloc({c.ptr}))
    /\ since' = <<Op("clone", as_os_str(c), iter(c), 0)>>
    /\ UNCHANGED <<c, svars>>

\* mem::swap(&mut c, &mut snap) right after the clone was taken: from here
\* on the clone is the one that is changed and the original the one kept.
Swap ==
    /\ snap # NoSnap
    /\ Len(since) = 1
    /\ since[1].op = "clone"
    /\ c' = snap
    /\ snap' = c
    /\ since' = <<[since[1] EXCEPT !.op = "swap"]>>
    /\ UNCHANGED svars

\* drop(snap)
Drop ==
    /\ snap # NoSnap
    /\ ~Panicked
    /\ snap' = NoSnap
    /\ since' = <<>>
    /\ UNCHANGED <<c, svars>>

Next ==
    \/ PushBack
    \/ Extend
    \/ PopBackN
    \/ PopBack
    \/ PushFront
    \/ PopFrontN
    \/ PopFront
    \/ Clear
    \/ Clone
    \/ Swap
    \/ Drop

Spec == Init /\ [][Next]_vars

(***************************************************************************)
(* The stand-alone iterators: split(x) stepped forward by next, and        *)
(* split(x) stepped backward by next_back.                                 *)
(***************************************************************************)
SplitInit ==
    /\ c = empty
    /\ snap = NoSnap
    /\ since = <<Op("empty", <<>>, <<>>, 0)>>
    /\ x \in Strs(MaxInput)
    /\ fwd = Fresh(x)
    /\ bwd = Fresh(x)
    /\ mix = FreshBoth(x)
    /\ norm = NoNorm
    /\ ord = NoOrd
    /\ NoQueries

\* One call of an iterator: r is what the call returned and left behind.
Stepped(i, r) ==
    [it   |-> r.rest,
     out  |-> IF r.some THEN Append(i.out, r.item) ELSE i.out,
     done |-> ~r.some]

\* fwd.next()
StepNext ==
    /\ fwd' = Stepped(fwd, next(x, fwd.it))
    /\ UNCHANGED <<cvars, x, bwd, norm, ord, qvars, rsv, acc>>

\* bwd.next_back()
StepNextBack ==
    /\ bwd' = Stepped(bwd, next_back(x, bwd.it))
    /\ UNCHANGED <<cvars, x, fwd, norm, ord, qvars, rsv, acc>>

\* normalize(x), and normalize of what it returned
Normalize ==
    /\ ~norm.done
    /\ norm' = [done  |-> TRUE,
                once  |-> normalize(x),
                twice |-> normalize(normalize(x))]
    /\ UNCHANGED <<cvars, x, fwd, bwd, ord, qvars, rsv, acc>>

\* split(x).last()
Last ==
    /\ ~lst.done
    /\ LET r == last(x, new(x))
       IN  lst' = [done |-> TRUE, some |-> r.some, item |-> r.item]
    /\ UNCHANGED <<cvars, x, fwd, bwd, mix, norm, ord, hint, rsv, acc>>

\* fwd.size_hint(), at whatever point of the traversal fwd is
SizeHint ==
    /\ LET r == size_hint(x, fwd.it)
       IN  hint' = [done |-> TRUE, at |-> fwd.it,
                    lower |-> r.lower, upper |-> r.upper]
    /\ UNCHANGED <<cvars, x, fwd, bwd, mix, norm, ord, lst, rsv, acc>>

SplitNext ==
    \/ StepNext
    \/ StepNextBack
    \/ Normalize
    \/ Last
    \/ SizeHint

SplitSpec == SplitInit /\ [][SplitNext]_vars

(***************************************************************************)
(* One iterator stepped from both ends: split(x) driven by next and        *)
(* next_back in any order.                                                 *)
(***************************************************************************)

\* One call of the iterator m by the method named: r is what the call
\* returned and left behind; done says that some call has returned None,
\* calls counts the calls up to the first that did.
SteppedBy(m, name, r) ==
    [it    |-> r.rest,
     out   |-> IF r.some THEN Append(m.out, r.item) ELSE m.out,
     by    |-> IF r.some THEN Append(m.by, name) ELSE m.by,
     done  |-> IF r.some THEN m.done ELSE TRUE,
     calls |-> IF m.done THEN m.calls ELSE m.calls + 1]

\* mix.next()
MixNext ==
    /\ mix' = SteppedBy(mix, "next", next(x, mix.it))
    /\ UNCHANGED <<cvars, x, fwd, bwd, norm, ord, lst, hint, rsv, acc>>

\* mix.next_back()
MixNextBack ==
    /\ mix' = SteppedBy(mix, "next_back", next_back(x, mix.it))
    /\ UNCHANGED <<cvars, x, fwd, bwd, norm, ord, lst, hint, rsv, acc>>

MixStep ==
    \/ MixNext
    \/ MixNextBack

MixSpec == SplitInit /\ [][MixStep]_vars

(***************************************************************************)
(* The comparisons: a container constructed from a text of path bytes,     *)
(* compared with a raw text and with the container constructed from it.    *)
(***************************************************************************)

\* The bytes of the compared texts: the separator, '/', '.' and a quote.
PathBytes == {U8, Slash, Dot, 34}
PathStrs(n) == UNION {[1..k -> PathBytes] : k \in 0..n}

CmpInit ==
    /\ \E s \in PathStrs(MaxCmp) :
           /\ c = From(s, Alloc({}))
           /\ since = <<Op("from", s, <<>>, 0)>>
    /\ snap = NoSnap
    /\ x \in PathStrs(MaxCmp + 1)
    /\ fwd = Fresh(x)
    /\ bwd = Fresh(x)
    /\ mix = FreshBoth(x)
    /\ norm = NoNorm
    /\ ord = NoOrd
    /\ NoQueries

\* c == PathEnv::from(x), c.cmp(&PathEnv::from(x)), c == x, c.partial_cmp(x)
Compare ==
    /\ ~ord.done
    /\ LET other == From(x, Alloc({c.ptr}))
       IN  ord' = [done        |-> TRUE,
                   eq          |-> eq(c, other),
                   cmp         |-> cmp(c, other),
                   eq_os_str   |-> eq_os_str(c, x),
                   partial_cmp |-> partial_cmp(c, x)]
    /\ UNCHANGED <<cvars, x, fwd, bwd, norm, qvars, rsv, acc>>

CmpNext == Compare

CmpSpec == CmpInit /\ [][CmpNext]_vars

(***************************************************************************)
(* The read accessors: a container that is constructed, appended to and    *)
(* truncated, and read in between.                                         *)
(***************************************************************************)

\* The largest index asked for, beside usize::MAX.
MaxIndex == 3

\* The paths asked for: a byte that is a segment of some container, the
\* same followed by '/', another byte, and the empty path.
Candidates == {<<34>>, <<34, Slash>>, <<255>>, <<>>}

\* c.len(), c.is_empty(), c.get(index), c.front(), c.back(), c.contains(p)
Read ==
    /\ ~acc.done
    /\ \E index \in 0..MaxIndex \cup {USIZE_MAX}, p \in Candidates :
           acc' = [done     |-> TRUE,
                   index    |-> index,
                   path     |-> p,
                   len      |-> len(c),
                   is_empty |-> is_empty(c),
                   get      |-> get(c, index),
                   front    |-> front(c),
                   back     |-> back(c),
                   contains |-> contains(c, p)]
    /\ UNCHANGED <<cvars, x, fwd, bwd, norm, ord, qvars, rsv>>

\* What the accessors returned goes out of scope.
Release ==
    /\ acc.done
    /\ acc' = NoAcc
    /\ UNCHANGED <<cvars, x, fwd, bwd, norm, ord, qvars, rsv>>

ReadNext ==
    \/ PushBack
    \/ Extend
    \/ PopBackN
    \/ PopBack
    \/ Clear
    \/ Read
    \/ Release

ReadSpec == Init /\ [][ReadNext]_vars

(***************************************************************************)
(* The pre-sizing of extend: the empty container is extended by an         *)
(* iterator of one entry whose size hint is any machine word.              *)
(***************************************************************************)
ReserveInit ==
    /\ c = empty
    /\ snap = NoSnap
    /\ since = <<Op("empty", <<>>, <<>>, 0)>>
    /\ x = <<>>
    /\ fwd = Fresh(x)
    /\ bwd = Fresh(x)
    /\ mix = FreshBoth(x)
    /\ norm = NoNorm
    /\ ord = NoOrd
    /\ NoQueries

\* c.extend(iterator yielding e, with size hint (_, Some(upper)))
ExtendHinted ==
    /\ ~rsv.done
    /\ \E e \in {<<>>, <<34>>}, upper \in 0..USIZE_MAX :
           LET r == extend_with_hint(c, <<e>>, upper, Alloc({}))
           IN  /\ Unwound(Op("extend", <<>>, <<e>>, 0), r)
               /\ rsv' = [done |-> TRUE, size_hint |-> upper,
                          additional |-> r.additional]
    /\ UNCHANGED <<x, fwd, bwd, norm, ord, qvars, acc>>

ReserveNext == ExtendHinted

ReserveSpec == ReserveInit /\ [][ReserveNext]_vars

(***************************************************************************)
(* Vocabulary of the properties.                                           *)
(***************************************************************************)

\* The byte strings the slices of s hold.
Contents(s, slices) == [k \in 1..Len(slices) |-> SliceBytes(s, slices[k])]

\* Segments joined by single separators.
Join(segs) == IF segs = <<>> THEN <<>> ELSE Head(segs) \o sep_joined(Tail(segs))

SepFree(e) == \A i \in 1..Len(e) : e[i] # U8

\* An entry that is one segment: not empty and without a separator.
Plain(e) == e # <<>> /\ SepFree(e)

\* Canonical form of a raw text: one separator between adjacent entries and
\* none at either end.
Canonical(t) ==
    /\ t = <<>> \/ (t[1] # U8 /\ t[Len(t)] # U8)
    /\ \A i \in 1..(Len(t) - 1) : ~(t[i] = U8 /\ t[i + 1] = U8)

\* The maximal non-empty runs of non-separator bytes of s, as slices.
Runs(s) ==
    {sl \in [off : 0..Len(s), len : 1..Len(s)] :
        /\ sl.off + sl.len <= Len(s)
        /\ \A k \in (sl.off + 1)..(sl.off + sl.len) : s[k] # U8
        /\ sl.off = 0 \/ s[sl.off] = U8
        /\ sl.off + sl.len = Len(s) \/ s[sl.off + sl.len + 1] = U8}

\* The log holds a clone followed by exactly the operations named.
Did(names) ==
    /\ Len(since) = Len(names) + 1
    /\ since[1].op = "clone"
    /\ \A k \in 1..Len(names) : since[k + 1].op = names[k]

\* self after push_back of each entry of es in turn.
RECURSIVE PushAll(_, _)
PushAll(self, es) ==
    IF es = <<>> THEN self
    ELSE PushAll(push_back(self, Head(es), self.ptr), Tail(es))

\* The raw text of self cut at the end of its k-th cached segment.
CutAfter(self, k) ==
    IF k = 0 THEN <<>>
    ELSE SubSeq(self.path, 1,
                self.parts[k].addr + self.parts[k].len - self.ptr)

(***************************************************************************)
(* C1.  In every reachable state the cached segments, read in order, are   *)
(* exactly what split yields over the container's whole raw text.          *)
(***************************************************************************)
C1_CacheIsSplitOfText ==
    iter(c) = Contents(as_os_str(c), split(as_os_str(c)))

(***************************************************************************)
(* C2.  For every input, the segments next_back yields until None are the  *)
(* reverse of the segments next yields until None.                         *)
(***************************************************************************)
C2_BackwardIsReverseOfForward ==
    (fwd.done /\ bwd.done) => bwd.out = Reverse(fwd.out)

(***************************************************************************)
(* C3.  Forward traversal yields the maximal non-empty runs of             *)
(* non-separator bytes of the input, left to right, and nothing else: what *)
(* has been yielded so far are runs in increasing position, and once None  *)
(* is returned every run has been yielded.  A quote is an ordinary byte.   *)
(***************************************************************************)
C3_ForwardYieldsMaximalRuns ==
    /\ \A k \in 1..Len(fwd.out) : fwd.out[k] \in Runs(x)
    /\ \A k \in 1..(Len(fwd.out) - 1) : fwd.out[k].off < fwd.out[k + 1].off
    /\ fwd.done => Len(fwd.out) = Cardinality(Runs(x))

\* A quoted text with a separator inside has been split in two.
C3_Witness ==
    /\ fwd.done
    /\ Len(x) >= 3
    /\ x[1] = 34 /\ x[Len(x)] = 34
    /\ \E i \in 2..(Len(x) - 1) : x[i] = U8
    /\ Len(fwd.out) = 2

(***************************************************************************)
(* C4.  extend(e1..ek) leaves the same decoded segments and the same raw   *)
(* text as push_back(e1), ..., push_back(ek) on an equal container; when   *)
(* the container is not empty a separator stands between its old text and  *)
(* e1.  Stated for entries that are non-empty and hold no separator.       *)
(***************************************************************************)
C4_ExtendIsPushBacks ==
    (Did(<<"extend">>) /\ \A k \in 1..Len(since[2].es) : Plain(since[2].es[k])) =>
        LET one_by_one == PushAll(snap, since[2].es)
        IN  /\ iter(c) = iter(one_by_one)
            /\ as_os_str(c) = as_os_str(one_by_one)

(***************************************************************************)
(* C5.  push_back(e) of a non-empty, separator-free e appends e to the     *)
(* decoded sequence and writes, after the old raw text, one separator iff  *)
(* the container held a segment (!is_empty()), then e.  From the empty     *)
(* container, push_back(a) then push_back(b) gives a+sep+b, len 2, front   *)
(* a, back b.                                                              *)
(***************************************************************************)
C5_PushBackAppends ==
    /\ (Did(<<"push_back">>) /\ Plain(since[2].e)) =>
          /\ iter(c) = Append(iter(snap), since[2].e)
          /\ len(c) = len(snap) + 1
          /\ as_os_str(c) =
                as_os_str(snap)
                    \o (IF ~is_empty(snap) THEN <<U8>> ELSE <<>>)
                    \o since[2].e
    /\ (/\ Did(<<"push_back", "push_back">>)
        /\ Plain(since[2].e) /\ Plain(since[3].e)
        /\ as_os_str(snap) = <<>>) =>
          /\ as_os_str(c) = since[2].e \o <<U8>> \o since[3].e
          /\ iter(c) = <<since[2].e, since[3].e>>

\* An entry was pushed onto a container that held segments, and the buffer
\* moved.
C5_Witness ==
    /\ Did(<<"push_back">>)
    /\ Plain(since[2].e)
    /\ ~is_empty(snap)
    /\ len(c) = len(snap) + 1
    /\ since[2].moved

(***************************************************************************)
(* C6.  pop_back_n(n) on a container with L segments keeps the first       *)
(* max(L-n, 0) segments, unchanged and in order, and cuts the raw text at  *)
(* the end of the last surviving segment (to nothing when none survives);  *)
(* n > L empties the container.                                            *)
(***************************************************************************)
C6_PopBackNTruncates ==
    Did(<<"pop_back_n">>) =>
        LET k == Max(len(snap) - since[2].n, 0)
        IN  /\ iter(c) = SubSeq(iter(snap), 1, k)
            /\ as_os_str(c) = CutAfter(snap, k)
            /\ since[2].n > len(snap) => (is_empty(c) /\ as_os_str(c) = <<>>)

\* More segments were asked to be removed than the container held.
C6_Witness ==
    /\ Did(<<"pop_back_n">>)
    /\ len(snap) > 0
    /\ since[2].n > len(snap)
    /\ is_empty(c)

\* Some but not all segments were removed.
C6_WitnessPartial ==
    /\ Did(<<"pop_back_n">>)
    /\ since[2].n > 0
    /\ len(c) > 0
    /\ len(c) < len(snap)

(***************************************************************************)
(* C7, as claimed.  For any container and any non-empty entry e,           *)
(* push_back(e) followed by pop_back() restores the decoded segments and   *)
(* the raw text exactly.                                                   *)
(***************************************************************************)
C7_PushPopRestoresExactly ==
    (Did(<<"push_back", "pop_back">>) /\ since[2].e # <<>>) =>
        /\ iter(c) = iter(snap)
        /\ as_os_str(c) = as_os_str(snap)

(***************************************************************************)
(* C7, amended.  For any container and any non-empty entry e without a     *)
(* separator, push_back(e) followed by pop_back() restores the decoded     *)
(* segments exactly and leaves the old raw text cut at the end of its last *)
(* segment: the raw text is restored exactly when it did not end with a    *)
(* separator.                                                              *)
(***************************************************************************)
C7_PushPopRestoresSegments ==
    (Did(<<"push_back", "pop_back">>) /\ Plain(since[2].e)) =>
        /\ iter(c) = iter(snap)
        /\ as_os_str(c) = CutAfter(snap, len(snap))
        /\ (as_os_str(snap) = <<>> \/ as_os_str(snap)[Len(as_os_str(snap))] # U8)
              => as_os_str(c) = as_os_str(snap)

\* An entry was pushed onto and popped off a container that held segments.
C7_Witness ==
    /\ Did(<<"push_back", "pop_back">>)
    /\ Plain(since[2].e)
    /\ ~is_empty(snap)
    /\ as_os_str(c) = as_os_str(snap)

(***************************************************************************)
(* C8.  k >= 1 push_back calls of non-empty, separator-free entries        *)
(* followed by pop_back_n(k) leave a container that compares equal (==) to *)
(* the clone taken before the pushes.                                      *)
(***************************************************************************)
C8_PushesThenPopEqualsClone ==
    (/\ Len(since) >= 3
     /\ since[1].op = "clone"
     /\ \A k \in 2..(Len(since) - 1) :
            since[k].op = "push_back" /\ Plain(since[k].e)
     /\ since[Len(since)].op = "pop_back_n"
     /\ since[Len(since)].n = Len(since) - 2) =>
        eq(c, snap)

\* Two entries were pushed onto a container that held segments, and both
\* were removed by pop_back_n(2).
C8_Witness ==
    /\ Did(<<"push_back", "push_back", "pop_back_n">>)
    /\ Plain(since[2].e) /\ Plain(since[3].e)
    /\ since[2].moved
    /\ since[4].n = 2
    /\ ~is_empty(snap)
    /\ eq(c, snap)

(***************************************************************************)
(* C9, as claimed.  In every reachable state the rendered raw text is      *)
(* canonical: one separator between adjacent entries, none at either end.  *)
(***************************************************************************)
C9_RenderIsCanonical == Canonical(as_os_str(c))

(***************************************************************************)
(* C9, amended.  Rendering returns the raw text as it is held, so a        *)
(* container constructed from non-canonical text renders it as given.      *)
(* What holds: the empty container renders canonically, and canonical form *)
(* is kept by push_back and extend of non-empty separator-free entries and *)
(* by pop_back_n, pop_back and clear.                                      *)
(***************************************************************************)
KeepsCanonical(o) ==
    \/ o.op = "push_back" /\ Plain(o.e)
    \/ o.op = "extend" /\ \A k \in 1..Len(o.es) : Plain(o.es[k])
    \/ o.op \in {"pop_back_n", "pop_back", "clear"}

C9_CanonicalFormIsKept ==
    /\ since = <<Op("empty", <<>>, <<>>, 0)>> => Canonical(as_os_str(c))
    /\ (/\ Len(since) = 2
        /\ since[1].op = "clone"
        /\ KeepsCanonical(since[2])
        /\ Canonical(as_os_str(snap))) => Canonical(as_os_str(c))

\* A canonical text of two entries grew by a pushed entry.
C9_Witness ==
    /\ Did(<<"push_back">>)
    /\ Plain(since[2].e)
    /\ len(snap) = 2
    /\ Canonical(as_os_str(snap))
    /\ as_os_str(c) # as_os_str(snap)

(***************************************************************************)
(* C10.  A container constructed from a byte string and not mutated        *)
(* renders that byte string, byte for byte.                                *)
(***************************************************************************)
C10_ConstructRenderRoundTrip ==
    (Len(since) = 1 /\ since[1].op = "from") => as_os_str(c) = since[1].e

\* A container built from a non-canonical text that holds the byte 255.
C10_Witness ==
    /\ Len(since) = 1
    /\ since[1].op = "from"
    /\ ~Canonical(since[1].e)
    /\ \E i \in 1..Len(since[1].e) : since[1].e[i] = 255
    /\ as_os_str(c) = since[1].e

(***************************************************************************)
(* C11.  For every reachable container, constructing a new container from  *)
(* its rendered raw text yields the same decoded segment sequence: same    *)
(* length, same segments, same order.                                      *)
(***************************************************************************)
C11_RebuildKeepsSegments ==
    LET rebuilt == From(as_os_str(c), Alloc({c.ptr, snap.ptr}))
    IN  /\ len(rebuilt) = len(c)
        /\ iter(rebuilt) = iter(c)

(***************************************************************************)
(* C12.  normalize is idempotent: for every byte string x,                 *)
(* normalize(normalize(x)) = normalize(x).                                 *)
(***************************************************************************)
C12_NormalizeIsIdempotent ==
    norm.done => norm.twice = norm.once

\* A text with redundant separators was normalized to something not empty.
C12_Witness ==
    /\ norm.done
    /\ x # <<>> /\ x[1] = U8
    /\ norm.once # <<>>
    /\ norm.once # x
    /\ norm.twice = norm.once

(***************************************************************************)
(* C13.  For every byte string x, normalize(x) is the forward segments of  *)
(* split(x) joined by exactly one separator, with no separator at the      *)
(* start or end; it is empty when x is empty or holds separators only; and *)
(* split(normalize(x)) yields the segments split(x) yields.                *)
(***************************************************************************)
C13_NormalizeIsJoinOfSplit ==
    norm.done =>
        /\ norm.once = Join(Contents(x, split(x)))
        /\ Canonical(norm.once)
        /\ (\A i \in 1..Len(x) : x[i] = U8) => norm.once = <<>>
        /\ Contents(norm.once, split(norm.once)) = Contents(x, split(x))

\* Two entries with a doubled separator between them were normalized.
C13_Witness ==
    /\ norm.done
    /\ Len(split(x)) = 2
    /\ \E i \in 1..(Len(x) - 1) : x[i] = U8 /\ x[i + 1] = U8
    /\ Len(norm.once) < Len(x)

(***************************************************************************)
(* Orderings, stated without recursion.                                    *)
(***************************************************************************)

\* a is lexicographically less than b when their elements are compared by
\* Lt and Eq: at the first position where they differ a's element is less,
\* or a is a strict prefix of b.
LexLess(a, b, Lt(_, _), Eq(_, _)) ==
    \E k \in 1..Len(b) :
        /\ k - 1 <= Len(a)
        /\ \A j \in 1..(k - 1) : Eq(a[j], b[j])
        /\ k = Len(a) + 1 \/ Lt(a[k], b[k])

Same(p, q) == p = q
ByteLt(p, q) == p < q

\* Byte strings by their byte ordering.
BytesLess(a, b) == LexLess(a, b, ByteLt, Same)

\* Path components: by kind, and names by their byte ordering.
CompLess(p, q) ==
    \/ p.kind < q.kind
    \/ p.kind = q.kind /\ BytesLess(p.name, q.name)

\* Segments as paths: by their components.
PathSame(a, b) == components(a) = components(b)
PathLess(a, b) == LexLess(components(a), components(b), CompLess, Same)

\* The decoded segments of a raw text.
SegsOf(t) == Contents(t, split(t))

(***************************************************************************)
(* C14, as claimed.  Two containers are equal iff their decoded sequences  *)
(* have the same length and are byte-for-byte equal segment by segment,    *)
(* and c1 < c2 iff c1's sequence is lexicographically less, each segment   *)
(* compared by its byte ordering, a strict prefix being less.              *)
(***************************************************************************)
C14_ComparesBytewise ==
    ord.done =>
        /\ ord.eq <=> iter(c) = SegsOf(x)
        /\ ord.cmp = "Less" <=> LexLess(iter(c), SegsOf(x), BytesLess, Same)

(***************************************************************************)
(* C14, amended.  Comparison is defined by the decoded sequences only, the *)
(* segments being compared as paths, component by component: two           *)
(* containers are equal iff their sequences have the same length and each  *)
(* segment has the same components as its counterpart (byte-for-byte equal *)
(* segments do), and c1 < c2 iff c1's sequence is lexicographically less   *)
(* under the ordering of paths by components, a strict prefix being less.  *)
(* Redundant separators in the raw texts never affect the result.          *)
(***************************************************************************)
C14_ComparesPathwise ==
    ord.done =>
        LET a  == iter(c)
            b  == SegsOf(x)
            n1 == From(normalize(as_os_str(c)), c.ptr)
            n2 == From(normalize(x), Alloc({c.ptr}))
        IN  /\ ord.eq <=> /\ Len(a) = Len(b)
                          /\ \A k \in 1..Len(a) : PathSame(a[k], b[k])
            /\ a = b => ord.eq
            /\ ord.cmp = "Less" <=> LexLess(a, b, PathLess, PathSame)
            /\ ord.cmp = "Greater" <=> LexLess(b, a, PathLess, PathSame)
            /\ ord.cmp = "Equal" <=> ord.eq
            /\ ord.eq = eq(n1, n2)
            /\ ord.cmp = cmp(n1, n2)

\* Two containers of two segments whose raw texts differ in their
\* separators only were found equal.
C14_Witness ==
    /\ ord.done
    /\ len(c) = 2
    /\ as_os_str(c) # x
    /\ iter(c) = SegsOf(x)
    /\ ord.eq
    /\ ord.cmp = "Equal"

(***************************************************************************)
(* C15.  Comparing a container c with a raw text t gives what comparing c  *)
(* with the container constructed from t gives: c.partial_cmp(t) =         *)
(* Some(c.cmp(construct(t))) and (c == t) = (c == construct(t)); hence a   *)
(* container built from a+sep+b equals the raw text a+sep+b+sep.           *)
(***************************************************************************)
C15_RawTextComparesAsContainer ==
    ord.done =>
        /\ ord.partial_cmp = Some(ord.cmp)
        /\ ord.eq_os_str = ord.eq
        /\ (/\ len(c) = 2
            /\ Canonical(as_os_str(c))
            /\ x = as_os_str(c) \o <<U8>>) => ord.eq_os_str

\* A container built from a+sep+b was compared with a+sep+b+sep.
C15_Witness ==
    /\ ord.done
    /\ len(c) = 2
    /\ Canonical(as_os_str(c))
    /\ x = as_os_str(c) \o <<U8>>
    /\ ord.eq_os_str
    /\ ord.partial_cmp = Some("Equal")

(***************************************************************************)
(* Where the cached parts point.                                           *)
(***************************************************************************)

\* The byte range of part lies inside the buffer of self.
Inside(self, part) ==
    /\ part.addr >= self.ptr
    /\ part.addr + part.len <= self.ptr + Len(self.path)

\* Every cached part of self lies inside the buffer of self.
InBuffer(self) == \A k \in 1..Len(self.parts) : Inside(self, self.parts[k])

\* part has a byte in common with the buffer of self.
Touches(self, part) ==
    /\ part.addr < self.ptr + Len(self.path)
    /\ part.addr + part.len > self.ptr

(***************************************************************************)
(* C16.  Right after snap = c.clone(), snap has the raw text and the       *)
(* decoded segments of c, and every part of snap points into snap's own    *)
(* buffer, none into c's.  Whatever is done to c afterwards, snap keeps    *)
(* the raw text and the decoded segments it had when it was taken.         *)
(***************************************************************************)
C16_CloneIsIndependent ==
    snap # NoSnap =>
        /\ InBuffer(snap)
        /\ \A k \in 1..Len(snap.parts) : ~Touches(c, snap.parts[k])
        /\ as_os_str(snap) = since[1].e
        /\ iter(snap) = since[1].es
        /\ Len(since) = 1 =>
               /\ as_os_str(snap) = as_os_str(c)
               /\ iter(snap) = iter(c)
               /\ eq(snap, c)

\* The container was changed and its buffer moved after a clone of two
\* segments was taken, and the clone still reads its two segments.
C16_Witness ==
    /\ snap # NoSnap
    /\ len(snap) = 2
    /\ Len(since) >= 2
    /\ since[2].moved
    /\ as_os_str(c) # as_os_str(snap)
    /\ iter(snap) = since[1].es
    /\ InBuffer(snap)

(***************************************************************************)
(* C17.  After any sequence of operations every cached part lies fully     *)
(* inside the current buffer [start, start + len).  A step that appends    *)
(* loses no cached part; every step translates the parts it keeps by       *)
(* exactly (new start - old start) and leaves their lengths as they were,  *)
(* so a step that does not relocate the buffer leaves them untouched.      *)
(***************************************************************************)
C17_Translated ==
    /\ Len(c'.path) > Len(c.path) => Len(c'.parts) >= Len(c.parts)
    /\ \A k \in 1..Min(Len(c.parts), Len(c'.parts)) :
           /\ c'.parts[k].addr = c.parts[k].addr + (c'.ptr - c.ptr)
           /\ c'.parts[k].len = c.parts[k].len
    /\ c'.ptr = c.ptr =>
           SubSeq(c'.parts, 1, Min(Len(c.parts), Len(c'.parts)))
               = SubSeq(c.parts, 1, Min(Len(c.parts), Len(c'.parts)))

C17_NoDanglingParts ==
    /\ [](InBuffer(c))
    /\ [][C17_Translated]_vars

\* An append to a container of two segments moved the buffer, and the two
\* old parts sit at their old offsets in the new buffer.
C17_Witness ==
    /\ snap # NoSnap
    /\ Len(since) = 2
    /\ since[1].op = "clone"
    /\ since[2].op \in {"push_back", "extend"}
    /\ since[2].moved
    /\ len(snap) = 2
    /\ len(c) = 3
    /\ InBuffer(c)
    /\ \A k \in 1..2 : c.parts[k].addr - c.ptr = snap.parts[k].addr - snap.ptr

(***************************************************************************)
(* C18.  A segment is never empty and never holds the separator byte: not  *)
(* a cached segment of the container in any reachable state, and not an    *)
(* item yielded by split in either direction.                              *)
(***************************************************************************)
C18_SegmentsArePlain ==
    /\ \A k \in 1..len(c) : Plain(iter(c)[k])
    /\ \A k \in 1..Len(fwd.out) : Plain(SliceBytes(x, fwd.out[k]))
    /\ \A k \in 1..Len(bwd.out) : Plain(SliceBytes(x, bwd.out[k]))

(***************************************************************************)
(* C19.  push_front(p) on any container completes and prepends p: the      *)
(* decoded sequence is then the segments of p followed by the old ones     *)
(* (the front is p for a non-empty separator-free p), and the raw text and *)
(* the decoded sequence are those of the container constructed from        *)
(* p + separator + old text.                                               *)
(***************************************************************************)
C19_PushFrontPrepends ==
    Did(<<"push_front">>) =>
        LET p        == since[2].e
            expected == From(p \o <<U8>> \o as_os_str(snap), c.ptr)
        IN  /\ since[2].panic = ""
            /\ iter(c) = SegsOf(p) \o iter(snap)
            /\ Plain(p) => (len(c) >= 1 /\ iter(c)[1] = p)
            /\ as_os_str(c) = as_os_str(expected)
            /\ iter(c) = iter(expected)

(***************************************************************************)
(* C20.  pop_front_n(n), and pop_front() as pop_front_n(1), completes      *)
(* without error for every n on any container, removes the first           *)
(* min(n, len) segments and keeps the remaining ones unchanged and in      *)
(* order; n greater than the number of segments empties the container.     *)
(***************************************************************************)
C20_PopFrontNRemoves ==
    (Did(<<"pop_front_n">>) \/ Did(<<"pop_front">>)) =>
        LET n == IF since[2].op = "pop_front" THEN 1 ELSE since[2].n
            k == Min(n, len(snap))
        IN  /\ since[2].panic = ""
            /\ iter(c) = SubSeq(iter(snap), k + 1, len(snap))
            /\ n > len(snap) => is_empty(c)

(***************************************************************************)
(* C21.  split(x).last() returns the final segment of the forward          *)
(* traversal of x, and None when the forward traversal yields nothing.     *)
(***************************************************************************)
C21_LastIsFinalForwardSegment ==
    lst.done =>
        LET forward == Contents(x, split(x))
        IN  IF forward = <<>>
            THEN ~lst.some
            ELSE /\ lst.some
                 /\ SliceBytes(x, lst.item) = forward[Len(forward)]

(***************************************************************************)
(* C22.  At every point of a forward traversal size_hint returns the lower *)
(* bound 0 and the upper bound (separators in the remaining input) + 1.    *)
(* The upper bound is never below the number of segments still to be       *)
(* yielded, and is that number when the remaining input is not empty and   *)
(* has no leading, trailing or adjacent separators.                        *)
(***************************************************************************)
C22_SizeHintBoundsRemaining ==
    hint.done =>
        LET rest == SliceBytes(x, hint.at)
            seps == Cardinality({i \in 1..Len(rest) : rest[i] = U8})
            left == Len(collect(x, hint.at))
        IN  /\ hint.lower = 0
            /\ hint.upper = [some |-> TRUE, val |-> seps + 1]
            /\ hint.upper.val >= left
            /\ (rest # <<>> /\ Canonical(rest)) => hint.upper.val = left

\* The hint was asked after one segment had been yielded, with one more to
\* come out of a remaining input in canonical form.
C22_Witness ==
    /\ hint.done
    /\ hint.at.off > 0
    /\ hint.at = fwd.it
    /\ Len(fwd.out) = 1
    /\ SliceBytes(x, hint.at) # <<>>
    /\ Canonical(SliceBytes(x, hint.at))
    /\ hint.upper.val = 1

\* The hint was asked of a remaining input that starts with a separator:
\* the upper bound is above the number of segments to come.
C22_WitnessLoose ==
    /\ hint.done
    /\ hint.at.len > 0
    /\ x[hint.at.off + 1] = U8
    /\ hint.upper.val > Len(collect(x, hint.at))

(***************************************************************************)
(* C23.  For every size hint of the machine-word range the number of bytes *)
(* reserve_heuristic asks the buffer to reserve is strictly less than      *)
(* isize::MAX / 2, and is size_hint * 15 whenever that is below the cap.   *)
(***************************************************************************)
C23_ReserveIsCapped ==
    rsv.done =>
        /\ rsv.additional < ISIZE_MAX \div 2
        /\ rsv.size_hint * LEN_HEURISTIC < ISIZE_MAX \div 2 =>
               rsv.additional = rsv.size_hint * LEN_HEURISTIC

(***************************************************************************)
(* C24.  Split traversal, comparison, append and truncation complete with  *)
(* a result for every input: no call of push_back, extend, pop_back,       *)
(* pop_back_n or clear ends in a panic.                                    *)
(***************************************************************************)
C24_AppendAndTruncateAreTotal ==
    \A k \in 1..Len(since) :
        since[k].op \in {"push_back", "extend", "pop_back", "pop_back_n",
                         "clear"} => since[k].panic = ""

\* What C25 says of the accessors, for a given reading of "segment equals
\* p": len is the number of cached segments, is_empty iff len = 0, get(i)
\* the i-th segment for i < len and None otherwise, front = get(0), back =
\* get(len - 1), both None without segments, contains(p) iff some cached
\* segment equals p.
AccessorsAgree(Equals(_, _)) ==
    acc.done =>
        LET segs == iter(c)
            n    == Len(c.parts)
        IN  /\ acc.len = n
            /\ acc.is_empty <=> (acc.len = 0)
            /\ acc.get = IF acc.index < acc.len
                         THEN [some |-> TRUE, val |-> segs[acc.index + 1]]
                         ELSE None
            /\ acc.index = 0 => acc.front = acc.get
            /\ acc.index = acc.len - 1 => acc.back = acc.get
            /\ acc.front = IF n = 0 THEN None
                           ELSE [some |-> TRUE, val |-> segs[1]]
            /\ acc.back = IF n = 0 THEN None
                          ELSE [some |-> TRUE, val |-> segs[n]]
            /\ acc.contains <=> \E k \in 1..n : Equals(segs[k], acc.path)

\* A call of the accessors leaves the raw text and the cache as they were.
ReadsOnly == (acc'.done /\ ~acc.done) => c' = c

(***************************************************************************)
(* C25, as claimed.  The accessors agree with the cache and with each      *)
(* other in every reachable state, contains(p) holding iff some cached     *)
(* segment is byte-for-byte p, and they change neither text nor cache.     *)
(***************************************************************************)
C25_AccessorsAgreeBytewise ==
    /\ [](AccessorsAgree(Same))
    /\ [][ReadsOnly]_vars

(***************************************************************************)
(* C25, amended.  The same, contains(p) holding iff some cached segment    *)
(* has the path components of p.                                           *)
(***************************************************************************)
C25_AccessorsAgreePathwise ==
    /\ [](AccessorsAgree(PathSame))
    /\ [][ReadsOnly]_vars

\* A container of two different segments was read at index 1, and it
\* contains the path that is its first segment followed by '/'.
C25_Witness ==
    /\ acc.done
    /\ acc.len = 2
    /\ acc.index = 1
    /\ acc.get = acc.back
    /\ acc.front.some /\ acc.front # acc.back
    /\ acc.path = <<34, Slash>>
    /\ acc.contains

\* A container whose raw text is one separator was read: no segment.
C25_WitnessOnlySeparators ==
    /\ acc.done
    /\ as_os_str(c) = <<U8>>
    /\ acc.is_empty
    /\ acc.front = None /\ acc.back = None

\* The segments of each entry of es, one entry after the other.
RECURSIVE SegsOfAll(_)
SegsOfAll(es) ==
    IF es = <<>> THEN <<>> ELSE SegsOf(Head(es)) \o SegsOfAll(Tail(es))

(***************************************************************************)
(* C26.  A container built from a sequence of entries by from_iter has the *)
(* decoded segments of the empty container after push_back of each entry   *)
(* in order: the segments of the entries, one entry after the other.  An   *)
(* empty entry adds nothing, and no entries give the empty container.      *)
(***************************************************************************)
C26_FromIterIsPushBacks ==
    (Len(since) = 1 /\ since[1].op = "from_iter") =>
        /\ iter(c) = iter(PushAll(empty, since[1].es))
        /\ iter(c) = SegsOfAll(since[1].es)
        /\ since[1].es = <<>> => c = empty

\* A container built from an empty entry followed by a non-empty one, with
\* the one segment of the latter.
C26_Witness ==
    /\ Len(since) = 1
    /\ since[1].op = "from_iter"
    /\ Len(since[1].es) = 2
    /\ since[1].es[1] = <<>>
    /\ Plain(since[1].es[2])
    /\ iter(c) = <<since[1].es[2]>>

\* A container built from two different one-segment entries.
C26_WitnessTwo ==
    /\ Len(since) = 1
    /\ since[1].op = "from_iter"
    /\ Len(since[1].es) = 2
    /\ Plain(since[1].es[1]) /\ Plain(since[1].es[2])
    /\ since[1].es[1] # since[1].es[2]
    /\ len(c) = 2

\* A call that yields a segment leaves a shorter remaining input, and a
\* call made after some call returned None yields nothing.
C27_Step ==
    /\ Len(mix'.out) > Len(mix.out) => mix'.it.len < mix.it.len
    /\ mix.done => (mix'.out = mix.out /\ mix'.done)

(***************************************************************************)
(* C27.  Every traversal is finite and fused, however next and next_back   *)
(* are interleaved on one iterator: each call that returns a segment       *)
(* strictly shortens the remaining input, so the segments yielded and the  *)
(* bytes that remain never exceed the length of the input and None is      *)
(* returned by call number Len(x) + 1 at the latest; after a None every    *)
(* later call returns None.                                                *)
(***************************************************************************)
C27_FiniteAndFused ==
    /\ [][C27_Step]_vars
    /\ [](Len(mix.out) + mix.it.len <= Len(x))
    /\ [](mix.calls <= Len(x) + 1)
    /\ [](mix.calls = Len(x) + 1 => mix.done)

\* None was returned after a segment had been yielded by next and another
\* by next_back.
C27_Witness ==
    /\ mix.done
    /\ Len(mix.out) >= 2
    /\ \E j, k \in 1..Len(mix.by) : mix.by[j] = "next" /\ mix.by[k] = "next_back"


====
